---- MODULE Spec2Model ----
(***************************************************************************)
(* RagService (src/src/rag/rag.service.ts): the cross-lingual RAG pipeline *)
(* ask = resolve index host -> translate -> search -> assemble -> generate *)
(* together with onModuleInit, which resolves the index host at startup.   *)
(*                                                                         *)
(* Text is a sequence of tokens (a token is a character or an opaque run   *)
(* of characters), so that trim and join are computed, not assumed.        *)
(* Every await of the code is one step boundary: the code between two      *)
(* awaits runs to completion (JavaScript's event loop), a step of the      *)
(* model is the code from one settled await to the next one issued.        *)
(***************************************************************************)
EXTENDS Integers, Sequences, FiniteSets, TLC

VARIABLES
    indexHost,    \* RagService.indexHost, '' until resolved
    initPc,       \* onModuleInit: "pending" | "describe", then how it ended:
                  \*   "resolved" (try ran through) | "failed" (catch ran) | "rejected"
    pc,           \* per request: position of ask, "idle" | "describe" | "translate" |
                  \*   "fetch" | "json" | "generate", then "returned" | "rejected"
    question,     \* per request: the parameter originalQuestion
    english,      \* per request: the local englishQuestion
    hostAtStart,  \* per request: indexHost as read by the guard of line 73
    calls,        \* per request: the external calls issued so far, with arguments and outcomes
    result        \* per request: the value ask's promise resolved with

vars == <<indexHost, initPc, pc, question, english, hostAtStart, calls, result>>

----------------------------------------------------------------------------
(* Bounds *)

NumReqs == 2        \* request slots that may be in flight together
MaxHits == 2        \* longest hit list the index returns
MaxText == 4        \* longest text given to the Normalizer on its own

Reqs == 1..NumReqs

----------------------------------------------------------------------------
(* Program constants *)

TopK == 4           \* top_k of the search body
NAMESPACE == <<"lurky-products">>
\* 'No relevant product information found. (未找到相关产品信息)'
NoInfoAnswer == <<"No relevant product information found. (zh: not found)">>
\* '系统繁忙，请稍后再试 (System Error).'
SystemErrorAnswer == <<"(zh: system busy, retry later) (System Error).">>
SearchErrorPrefix == <<"Pinecone Search Error: ">>
Separator == <<"\n\n---\n\n">>
RequestedFields == <<"id", "text">>

----------------------------------------------------------------------------
(* The environment: what the external calls may return or throw *)

\* The host Pinecone reports for the configured index name. describeIndex is
\* a lookup of one index by name: every successful call reports this host.
DescribedHost == "lurky-index.svc.pinecone.io"

Whitespace == {" ", "\t"}

Questions == { <<"q">>, <<" ", "q">> }

\* What the translation chain may answer for `text`: the text verbatim (it is
\* English already) or one of the translations T.
RawTranslations(text, T) == { text } \cup T

\* A translation, with trailing whitespace as the model may add it.
Translations == { <<"e", " ">> }

StatusTexts == { <<"Bad Request">>, <<>> }

Answers == { <<"a">> }

\* Hits as the index may return them: with the service's own field, with
\* only the requested text field, with no fields at all, or a null entry.
HitCombined == [id |-> "p1", fields |-> [combined_context |-> <<"c1">>]]
HitTextOnly == [id |-> "p2", fields |-> [text |-> <<"t2">>]]
HitNoFields == [id |-> "p3"]
HitNull     == [isNull |-> TRUE]
HitKinds == { HitCombined, HitTextOnly, HitNoFields, HitNull }

SeqsUpTo(S, n) == UNION { [1..k -> S] : k \in 0..n }

\* Bodies response.json() may produce: { result: { hits } } or no result at all.
Bodies(n) == { [result |-> [hits |-> hs]] : hs \in SeqsUpTo(HitKinds, n) }
                \cup { [usage |-> 0] }

ErrDescribe  == [message |-> <<"describeIndex: request failed">>]
ErrLLM       == [message |-> <<"llm: request failed">>]
ErrFetch     == [message |-> <<"fetch failed">>]
ErrJson      == [message |-> <<"Unexpected token in JSON">>]
ErrNullHit   == [message |-> <<"Cannot read properties of null (reading 'fields')">>]

Pending    == [k |-> "pending"]
Ok(v)      == [k |-> "ok", v |-> v]
Threw(err) == [k |-> "throw", err |-> err]

----------------------------------------------------------------------------
(* Pure helpers *)

RECURSIVE TrimStart(_)
TrimStart(s) ==
    IF s # <<>> /\ Head(s) \in Whitespace THEN TrimStart(Tail(s)) ELSE s

RECURSIVE TrimEnd(_)
TrimEnd(s) ==
    IF s # <<>> /\ s[Len(s)] \in Whitespace THEN TrimEnd(SubSeq(s, 1, Len(s) - 1)) ELSE s

\* Mutant: trimStart in place of trim.
TrimStartOnly(s) == TrimStart(s)

\* String.prototype.trim
Trim(s) == TrimEnd(TrimStart(s))

\* searchResult.result?.hits || []
HitsOf(body) == IF "result" \in DOMAIN body THEN body.result.hits ELSE <<>>

\* JSON.stringify(hit.fields) of a fields object holding the one key `text`
JsonStringify(fields) ==
    <<"{">> \o <<"\"text\":\"">> \o fields.text \o <<"\"}">>

\* hit.fields?.combined_context || JSON.stringify(hit.fields); a missing
\* fields object stringifies to undefined, which join renders as ''.
HitEntry(hit) ==
    IF "fields" \notin DOMAIN hit THEN <<>>
    ELSE IF "combined_context" \in DOMAIN hit.fields /\ hit.fields.combined_context # <<>>
         THEN hit.fields.combined_context
         ELSE JsonStringify(hit.fields)

\* hit.fields on a null hit raises a TypeError
MapThrows(hs) == \E i \in 1..Len(hs) : "isNull" \in DOMAIN hs[i]

RECURSIVE Join(_, _)
Join(entries, sep) ==
    IF entries = <<>> THEN <<>>
    ELSE IF Len(entries) = 1 THEN entries[1]
    ELSE entries[1] \o sep \o Join(Tail(entries), sep)

\* hits.map(...).join('\n\n---\n\n')
Context(hs) == Join([i \in 1..Len(hs) |-> HitEntry(hs[i])], Separator)

----------------------------------------------------------------------------
(* The three return statements of ask *)

NoResult == [pending |-> TRUE]

EmptyResult(q, e) ==
    [question |-> q, englishQuestion |-> e, answer |-> NoInfoAnswer]

SuccessResult(q, e, a) ==
    [originalQuestion |-> q, englishQuestion |-> e, answer |-> a]

\* Mutant: the catch block returns the apology without the error's description.
FailureResultNoError(q, err) ==
    [question |-> q, answer |-> SystemErrorAnswer]

FailureResult(q, err) ==
    [question |-> q, answer |-> SystemErrorAnswer, error |-> err.message]

----------------------------------------------------------------------------
(* Call log *)

DescribeCall == [op |-> "describeIndex", out |-> Pending]
TranslateCall(text) == [op |-> "translate", text |-> text, out |-> Pending]
FetchCall(host, query) ==
    [op |-> "fetch", host |-> host, namespace |-> NAMESPACE, query |-> query,
     top_k |-> TopK, fields |-> RequestedFields, out |-> Pending]
JsonCall == [op |-> "json", out |-> Pending]
GenerateCall(ctx, e, q) ==
    [op |-> "generate", context |-> ctx, english_question |-> e,
     original_question |-> q, out |-> Pending]

Issue(log, call) == Append(log, call)
Settle(log, out) == [log EXCEPT ![Len(log)].out = out]

CountOf(log, op) == Cardinality({ i \in 1..Len(log) : log[i].op = op })

----------------------------------------------------------------------------
Init ==
    /\ indexHost = ""
    /\ initPc = "pending"
    /\ pc = [p \in Reqs |-> "idle"]
    /\ question = [p \in Reqs |-> <<>>]
    /\ english = [p \in Reqs |-> <<>>]
    /\ hostAtStart = [p \in Reqs |-> ""]
    /\ calls = [p \in Reqs |-> <<>>]
    /\ result = [p \in Reqs |-> NoResult]


----------------------------------------------------------------------------
(* onModuleInit *)

\* Mutant: the resolved host is not stored.
ResolvedHandleDropped(desc) == ""

\* this.indexHost = indexDescription.host
ResolvedHandle(desc) == desc.host

\* Mutant: the catch block of onModuleInit logs and rethrows.
InitCatchRethrow ==
    /\ initPc' = "rejected"
    /\ UNCHANGED indexHost

\* Mutant: the catch block of onModuleInit resets the handle.
InitCatchClears ==
    /\ initPc' = "failed"
    /\ indexHost' = ""

\* catch (error) { this.logger.error(...) } of onModuleInit
InitCatch ==
    /\ initPc' = "failed"
    /\ UNCHANGED indexHost

\* onModuleInit has settled
InitSettled == initPc \in {"resolved", "failed"}

OnModuleInit ==
    /\ initPc = "pending"
    /\ initPc' = "describe"
    /\ UNCHANGED <<indexHost, pc, question, english, hostAtStart, calls, result>>

InitDescribeReturn ==
    /\ initPc = "describe"
    /\ indexHost' = ResolvedHandle([host |-> DescribedHost])
    /\ initPc' = "resolved"
    /\ UNCHANGED <<pc, question, english, hostAtStart, calls, result>>

InitDescribeThrow ==
    /\ initPc = "describe"
    /\ InitCatch
    /\ UNCHANGED <<pc, question, english, hostAtStart, calls, result>>

----------------------------------------------------------------------------
(* ask *)

\* Mutant: no memoization, every request resolves the host.
NeedsResolveAlways(h) == TRUE

\* if (!this.indexHost)
NeedsResolve(h) == h = ""

\* Mutant: the status of the response is not looked at.
ResponseOkAlways(response) == TRUE

\* if (!response.ok)
ResponseOk(response) == response.ok

\* Mutant: no empty-hits branch, an empty hit list goes on to the answer chain.
IsEmptyHitsNever(hs) == FALSE

\* if (hits.length === 0)
IsEmptyHits(hs) == Len(hs) = 0

\* return res.trim() of translateToEnglish
TranslateToEnglish(res) == Trim(res)

\* Mutant: the search is given the question as asked.
SearchQueryOriginal(originalQuestion, englishQuestion) == originalQuestion

\* inputs: { text: englishQuestion } of the search body
SearchQuery(originalQuestion, englishQuestion) == englishQuestion

\* Mutant: the catch block logs and rethrows.
CatchRethrow(p, err) ==
    /\ pc' = [pc EXCEPT ![p] = "rejected"]
    /\ UNCHANGED result

\* catch (error) { ...; return { question, answer, error: error.message } }
Catch(p, err) ==
    /\ result' = [result EXCEPT ![p] = FailureResult(question[p], err)]
    /\ pc' = [pc EXCEPT ![p] = "returned"]

\* return statement of the empty-hits branch
ReturnEmpty(p) ==
    /\ result' = [result EXCEPT ![p] = EmptyResult(question[p], english[p])]
    /\ pc' = [pc EXCEPT ![p] = "returned"]

\* return statement of the success path
ReturnSuccess(p, a) ==
    /\ result' = [result EXCEPT ![p] = SuccessResult(question[p], english[p], a)]
    /\ pc' = [pc EXCEPT ![p] = "returned"]

\* Entry of ask up to its first await.
Ask(p, q) ==
    /\ pc[p] = "idle"
    /\ question' = [question EXCEPT ![p] = q]
    /\ english' = [english EXCEPT ![p] = <<>>]
    /\ hostAtStart' = [hostAtStart EXCEPT ![p] = indexHost]
    /\ result' = [result EXCEPT ![p] = NoResult]
    /\ IF NeedsResolve(indexHost)
       THEN /\ pc' = [pc EXCEPT ![p] = "describe"]
            /\ calls' = [calls EXCEPT ![p] = Issue(<<>>, DescribeCall)]
       ELSE /\ pc' = [pc EXCEPT ![p] = "translate"]
            /\ calls' = [calls EXCEPT ![p] = Issue(<<>>, TranslateCall(q))]
    /\ UNCHANGED <<indexHost, initPc>>

\* describeIndex of line 74 resolves: store the host, call translateToEnglish.
DescribeReturn(p) ==
    /\ pc[p] = "describe"
    /\ LET desc == [host |-> DescribedHost] IN
         /\ indexHost' = ResolvedHandle(desc)
         /\ calls' = [calls EXCEPT ![p] =
                Issue(Settle(@, Ok(desc.host)), TranslateCall(question[p]))]
    /\ pc' = [pc EXCEPT ![p] = "translate"]
    /\ UNCHANGED <<initPc, question, english, hostAtStart, result>>

\* Mutant: a resolution that threw inside ask is issued once more.
DescribeThrowRetry(p) ==
    /\ pc[p] = "describe"
    /\ CountOf(calls[p], "describeIndex") < 2
    /\ calls' = [calls EXCEPT ![p] = Issue(Settle(@, Threw(ErrDescribe)), DescribeCall)]
    /\ UNCHANGED <<indexHost, initPc, pc, question, english, hostAtStart, result>>

\* Mutant: a failed resolution inside ask is swallowed, the pipeline goes on.
DescribeThrowGoesOn(p) ==
    /\ pc[p] = "describe"
    /\ calls' = [calls EXCEPT ![p] =
           Issue(Settle(@, Threw(ErrDescribe)), TranslateCall(question[p]))]
    /\ pc' = [pc EXCEPT ![p] = "translate"]
    /\ UNCHANGED <<indexHost, initPc, question, english, hostAtStart, result>>

DescribeThrow(p) ==
    /\ pc[p] = "describe"
    /\ calls' = [calls EXCEPT ![p] = Settle(@, Threw(ErrDescribe))]
    /\ Catch(p, ErrDescribe)
    /\ UNCHANGED <<indexHost, initPc, question, english, hostAtStart>>

\* The translation chain answers: trim, build the search URL from the handle
\* as it is now, issue the search.
TranslateReturn(p, raw) ==
    /\ pc[p] = "translate"
    /\ LET e == TranslateToEnglish(raw) IN
         /\ english' = [english EXCEPT ![p] = e]
         /\ calls' = [calls EXCEPT ![p] =
                Issue(Settle(@, Ok(raw)), FetchCall(indexHost, SearchQuery(question[p], e)))]
    /\ pc' = [pc EXCEPT ![p] = "fetch"]
    /\ UNCHANGED <<indexHost, initPc, question, hostAtStart, result>>

\* Mutant: a translation call that threw is issued once more.
TranslateThrowRetry(p) ==
    /\ pc[p] = "translate"
    /\ CountOf(calls[p], "translate") < 2
    /\ calls' = [calls EXCEPT ![p] =
           Issue(Settle(@, Threw(ErrLLM)), TranslateCall(question[p]))]
    /\ UNCHANGED <<indexHost, initPc, pc, question, english, hostAtStart, result>>

\* Mutant: translateToEnglish swallows the failure and hands back its input.
TranslateThrowFallsBack(p) ==
    /\ pc[p] = "translate"
    /\ english' = [english EXCEPT ![p] = question[p]]
    /\ calls' = [calls EXCEPT ![p] =
           Issue(Settle(@, Threw(ErrLLM)), FetchCall(indexHost, question[p]))]
    /\ pc' = [pc EXCEPT ![p] = "fetch"]
    /\ UNCHANGED <<indexHost, initPc, question, hostAtStart, result>>

TranslateThrow(p) ==
    /\ pc[p] = "translate"
    /\ calls' = [calls EXCEPT ![p] = Settle(@, Threw(ErrLLM))]
    /\ Catch(p, ErrLLM)
    /\ UNCHANGED <<indexHost, initPc, question, english, hostAtStart>>

\* HTTP responses fetch may resolve with, S the status texts of the failures.
Responses(S) ==
    { [ok |-> TRUE, statusText |-> <<"OK">>] }
        \cup { [ok |-> FALSE, statusText |-> s] : s \in S }

\* throw new Error(`Pinecone Search Error: ${response.statusText}`)
SearchError(response) == [message |-> SearchErrorPrefix \o response.statusText]

\* fetch resolves with a response; a URL without a host is never answered.
FetchReturn(p, response) ==
    /\ pc[p] = "fetch"
    /\ calls[p][Len(calls[p])].host # ""
    /\ IF ResponseOk(response)
       THEN /\ calls' = [calls EXCEPT ![p] = Issue(Settle(@, Ok(response)), JsonCall)]
            /\ pc' = [pc EXCEPT ![p] = "json"]
            /\ UNCHANGED result
       ELSE /\ calls' = [calls EXCEPT ![p] = Settle(@, Ok(response))]
            /\ Catch(p, SearchError(response))
    /\ UNCHANGED <<indexHost, initPc, question, english, hostAtStart>>

\* Mutant: a search that threw is issued once more.
FetchThrowRetry(p) ==
    /\ pc[p] = "fetch"
    /\ CountOf(calls[p], "fetch") < 2
    /\ calls' = [calls EXCEPT ![p] =
           Issue(Settle(@, Threw(ErrFetch)), FetchCall(indexHost, english[p]))]
    /\ UNCHANGED <<indexHost, initPc, pc, question, english, hostAtStart, result>>

FetchThrow(p) ==
    /\ pc[p] = "fetch"
    /\ calls' = [calls EXCEPT ![p] = Settle(@, Threw(ErrFetch))]
    /\ Catch(p, ErrFetch)
    /\ UNCHANGED <<indexHost, initPc, question, english, hostAtStart>>

\* response.json() resolves: empty-hits branch, or assemble and call the
\* answer chain.
JsonReturn(p, body) ==
    /\ pc[p] = "json"
    /\ LET hs == HitsOf(body) IN
         IF IsEmptyHits(hs)
         THEN /\ calls' = [calls EXCEPT ![p] = Settle(@, Ok(body))]
              /\ ReturnEmpty(p)
         ELSE IF MapThrows(hs)
         THEN /\ calls' = [calls EXCEPT ![p] = Settle(@, Ok(body))]
              /\ Catch(p, ErrNullHit)
         ELSE /\ calls' = [calls EXCEPT ![p] =
                    Issue(Settle(@, Ok(body)),
                          GenerateCall(Context(hs), english[p], question[p]))]
              /\ pc' = [pc EXCEPT ![p] = "generate"]
              /\ UNCHANGED result
    /\ UNCHANGED <<indexHost, initPc, question, english, hostAtStart>>

JsonThrow(p) ==
    /\ pc[p] = "json"
    /\ calls' = [calls EXCEPT ![p] = Settle(@, Threw(ErrJson))]
    /\ Catch(p, ErrJson)
    /\ UNCHANGED <<indexHost, initPc, question, english, hostAtStart>>

GenerateReturn(p, a) ==
    /\ pc[p] = "generate"
    /\ calls' = [calls EXCEPT ![p] = Settle(@, Ok(a))]
    /\ ReturnSuccess(p, a)
    /\ UNCHANGED <<indexHost, initPc, question, english, hostAtStart>>

GenerateThrow(p) ==
    /\ pc[p] = "generate"
    /\ calls' = [calls EXCEPT ![p] = Settle(@, Threw(ErrLLM))]
    /\ Catch(p, ErrLLM)
    /\ UNCHANGED <<indexHost, initPc, question, english, hostAtStart>>

\* RagController.ask hands the result to the caller; the request is over.
Respond(p) ==
    /\ pc[p] = "returned"
    /\ pc' = [pc EXCEPT ![p] = "idle"]
    /\ question' = [question EXCEPT ![p] = <<>>]
    /\ english' = [english EXCEPT ![p] = <<>>]
    /\ hostAtStart' = [hostAtStart EXCEPT ![p] = ""]
    /\ calls' = [calls EXCEPT ![p] = <<>>]
    /\ result' = [result EXCEPT ![p] = NoResult]
    /\ UNCHANGED <<indexHost, initPc>>

----------------------------------------------------------------------------
(* Specifications *)

\* The outcomes the environment draws from: every case, for one request at a
\* time; one case of each kind, for requests that race (they share the
\* handle only, so the data of a request does not matter to the others).
Rich ==
    [questions |-> Questions, translations |-> Translations,
     statuses |-> StatusTexts, bodies |-> Bodies(MaxHits)]

Lean ==
    [questions |-> { <<" ", "q">> }, translations |-> {},
     statuses |-> { <<"Bad Request">> },
     bodies |-> { [usage |-> 0], [result |-> [hits |-> <<>>]],
                  [result |-> [hits |-> <<HitCombined>>]],
                  [result |-> [hits |-> <<HitNull>>]] }]

\* An external call of request p settles (returns or throws).
Settles(p, env) ==
    \/ DescribeReturn(p)
    \/ DescribeThrow(p)
    \/ \E raw \in RawTranslations(question[p], env.translations) : TranslateReturn(p, raw)
    \/ TranslateThrow(p)
    \/ \E response \in Responses(env.statuses) : FetchReturn(p, response)
    \/ FetchThrow(p)
    \/ \E body \in env.bodies : JsonReturn(p, body)
    \/ JsonThrow(p)
    \/ \E a \in Answers : GenerateReturn(p, a)
    \/ GenerateThrow(p)

Startup ==
    \/ OnModuleInit
    \/ InitDescribeReturn
    \/ InitDescribeThrow

\* One request at a time, accepted once startup has settled.
Next ==
    \/ Startup
    \/ \E q \in Rich.questions : InitSettled /\ Ask(1, q)
    \/ Settles(1, Rich)
    \/ Respond(1)

Spec == Init /\ [][Next]_vars

\* Every external call eventually returns or throws, and the controller
\* hands every result over.
FairSpec == Spec /\ WF_vars(Startup) /\ WF_vars(Settles(1, Rich)) /\ WF_vars(Respond(1))

\* Requests and startup interleaved in any way.
RaceNext ==
    \/ Startup
    \/ \E p \in Reqs, q \in Lean.questions : Ask(p, q)
    \/ \E p \in Reqs : Settles(p, Lean)
    \/ \E p \in Reqs : Respond(p)

RaceSpec == Init /\ [][RaceNext]_vars


----------------------------------------------------------------------------
(* Reading a request's call log *)

Last(log) == log[Len(log)]

HasCall(log, op) == \E i \in 1..Len(log) : log[i].op = op

\* The entry of the one call `op` of the log
CallOf(log, op) == log[CHOOSE i \in 1..Len(log) : log[i].op = op]

CallThrew(log, op) == HasCall(log, op) /\ CallOf(log, op).out.k = "throw"

CallReturned(log, op) == HasCall(log, op) /\ CallOf(log, op).out.k = "ok"

\* The search answered with a non-success status.
SearchNotOk(log) == CallReturned(log, "fetch") /\ ~CallOf(log, "fetch").out.v.ok

\* The search succeeded and its body holds no hit.
SearchGaveNoHits(log) ==
    CallReturned(log, "json") /\ HitsOf(CallOf(log, "json").out.v) = <<>>

\* The search succeeded with a hit list the assembly chokes on.
AssemblyRaised(log) ==
    CallReturned(log, "json") /\ MapThrows(HitsOf(CallOf(log, "json").out.v))

\* The descriptions of the exceptions raised in the request of this log: by an
\* external call that threw, by the status check, or by the assembly.
RaisedMessages(log) ==
    { log[i].out.err.message : i \in { j \in 1..Len(log) : log[j].out.k = "throw" } }
        \cup (IF SearchNotOk(log)
              THEN { SearchErrorPrefix \o CallOf(log, "fetch").out.v.statusText }
              ELSE {})
        \cup (IF AssemblyRaised(log) THEN { ErrNullHit.message } ELSE {})

HasError(r) == "error" \in DOMAIN r

----------------------------------------------------------------------------
(* C1..C4 *)

\* C1: whatever the external calls do (return or throw), ask never rejects:
\* it resolves with a result that has the answer field.
C1_NeverThrows ==
    \A p \in Reqs :
        /\ pc[p] # "rejected"
        /\ pc[p] = "returned" => "answer" \in DOMAIN result[p]

\* A request in which an external call threw has returned.
C1_Witness ==
    \E p \in Reqs :
        /\ pc[p] = "returned"
        /\ \E i \in 1..Len(calls[p]) : calls[p][i].out.k = "throw"

\* C2: when the search succeeds with zero hits, ask returns the fixed
\* no-information answer, without an error field, and the answer chain was
\* not invoked in that request.
C2_EmptyRetrieval ==
    \A p \in Reqs :
        SearchGaveNoHits(calls[p]) =>
            /\ pc[p] = "returned"
            /\ result[p].answer = NoInfoAnswer
            /\ ~HasError(result[p])
            /\ CountOf(calls[p], "generate") = 0

C2_Witness ==
    \E p \in Reqs :
        /\ pc[p] = "returned"
        /\ CallReturned(calls[p], "json")
        /\ CallOf(calls[p], "json").out.v = [result |-> [hits |-> <<>>]]

\* C3: a returned result has the error field exactly when a stage raised, and
\* then the answer is the fixed degraded-mode message and the error field is
\* the description of the exception raised.
C3_FailureResult ==
    \A p \in Reqs :
        pc[p] = "returned" =>
            /\ HasError(result[p]) <=> RaisedMessages(calls[p]) # {}
            /\ \A m \in RaisedMessages(calls[p]) :
                  /\ result[p].answer = SystemErrorAnswer
                  /\ result[p].error = m

\* The assembly raised on a null hit and the request returned.
C3_Witness ==
    \E p \in Reqs : pc[p] = "returned" /\ AssemblyRaised(calls[p])

\* C4: a search answered with a non-success status ends the request: the
\* error is the prefix followed by the status text, the answer the degraded
\* message, the answer chain is not invoked and the search not issued again.
C4_SearchNotOk ==
    \A p \in Reqs :
        SearchNotOk(calls[p]) =>
            /\ pc[p] = "returned"
            /\ HasError(result[p])
            /\ result[p].error =
                  SearchErrorPrefix \o CallOf(calls[p], "fetch").out.v.statusText
            /\ result[p].answer = SystemErrorAnswer
            /\ CountOf(calls[p], "generate") = 0
            /\ CountOf(calls[p], "fetch") = 1

C4_Witness ==
    \E p \in Reqs :
        /\ pc[p] = "returned"
        /\ SearchNotOk(calls[p])
        /\ CallOf(calls[p], "fetch").out.v.statusText = <<"Bad Request">>


----------------------------------------------------------------------------
(* C5..C7 *)

\* C5 as claimed: when the translation call fails the Normalizer returns its
\* input unchanged, so the search is issued with the original question.
C5_FailsClosed ==
    \A p \in Reqs :
        CallThrew(calls[p], "translate") =>
            /\ HasCall(calls[p], "fetch")
            /\ CallOf(calls[p], "fetch").query = question[p]

\* C5 as the code has it: when the translation call fails, translateToEnglish
\* raises; no search is issued and ask returns the degraded-mode result whose
\* error is the description of the translation failure.
C5_TranslateFailureDegrades ==
    \A p \in Reqs :
        CallThrew(calls[p], "translate") =>
            /\ pc[p] = "returned"
            /\ ~HasCall(calls[p], "fetch")
            /\ result[p].answer = SystemErrorAnswer
            /\ HasError(result[p])
            /\ result[p].error = CallOf(calls[p], "translate").out.err.message

C5_Witness ==
    \E p \in Reqs : pc[p] = "returned" /\ CallThrew(calls[p], "translate")

\* C6 as claimed: every returned result carries originalQuestion, equal to the
\* question asked, and answer; without an error it carries the canonical
\* query (englishQuestion in the code), equal to the Normalizer's output.
C6_ResultShape ==
    \A p \in Reqs :
        pc[p] = "returned" =>
            /\ "originalQuestion" \in DOMAIN result[p]
            /\ result[p].originalQuestion = question[p]
            /\ "answer" \in DOMAIN result[p]
            /\ ~HasError(result[p]) =>
                  /\ "englishQuestion" \in DOMAIN result[p]
                  /\ result[p].englishQuestion = english[p]

\* The outcomes of a returned request
FullSuccess(p) ==
    /\ CallReturned(calls[p], "generate")
    /\ result[p].answer = CallOf(calls[p], "generate").out.v
    /\ ~HasError(result[p])

DegradedEmpty(p) ==
    /\ SearchGaveNoHits(calls[p])
    /\ ~HasCall(calls[p], "generate")
    /\ result[p].answer = NoInfoAnswer
    /\ ~HasError(result[p])

DegradedFailed(p) ==
    /\ RaisedMessages(calls[p]) # {}
    /\ ~CallReturned(calls[p], "generate")
    /\ result[p].answer = SystemErrorAnswer
    /\ HasError(result[p])

ExactlyOneOutcome(p) ==
    /\ FullSuccess(p) \/ DegradedEmpty(p) \/ DegradedFailed(p)
    /\ ~(FullSuccess(p) /\ DegradedEmpty(p))
    /\ ~(FullSuccess(p) /\ DegradedFailed(p))
    /\ ~(DegradedEmpty(p) /\ DegradedFailed(p))

\* START -> NORMALIZED -> RETRIEVED -> (EMPTY_RESULT | ASSEMBLED -> GENERATED)
\* -> DONE, every stage able to jump to FAILED -> DONE, as moves of ask's
\* position: a stage's call is pending at the position named after it.
StageMoves ==
    { <<"idle", "describe">>, <<"idle", "translate">>,
      <<"describe", "translate">>, <<"describe", "returned">>,
      <<"translate", "fetch">>, <<"translate", "returned">>,
      <<"fetch", "json">>, <<"fetch", "returned">>,
      <<"json", "generate">>, <<"json", "returned">>,
      <<"generate", "returned">>,
      <<"returned", "idle">> }

\* C7: given that every external call settles, every request that was
\* started returns; every step of a request is a move of the stage machine
\* (none goes back or repeats a stage); and a returned request is in exactly
\* one of the outcomes full success, degraded on empty retrieval, degraded on
\* exception.
C7_ThreeOutcomes ==
    /\ [](\A p \in Reqs : pc[p] = "returned" => ExactlyOneOutcome(p))
    /\ [][\A p \in Reqs :
            <<pc[p], calls[p], result[p]>>' # <<pc[p], calls[p], result[p]>>
                => <<pc[p], pc'[p]>> \in StageMoves]_vars
    /\ \A p \in Reqs : (pc[p] # "idle") ~> (pc[p] = "returned")

\* A request went all the way and returned the answer chain's output.
C7_Witness ==
    \E p \in Reqs : pc[p] = "returned" /\ FullSuccess(p)


----------------------------------------------------------------------------
(* C8..C10 *)

\* C8: the handle is memoized. A resolution call is issued only while the
\* handle is empty; a request that found the handle set never issues one;
\* and once the handle holds a host no step (a failed search or generation
\* included) clears or changes it.
C8_Memoized ==
    /\ [](\A p \in Reqs :
            (pc[p] # "idle" /\ hostAtStart[p] # "")
                => ~HasCall(calls[p], "describeIndex"))
    /\ [][/\ indexHost # "" => indexHost' = indexHost
          /\ \A p \in Reqs :
                CountOf(calls'[p], "describeIndex") > CountOf(calls[p], "describeIndex")
                    => indexHost = ""]_vars

\* A request that found the handle set failed in the search or in the
\* generation, and the handle is still set.
C8_Witness ==
    \E p \in Reqs :
        /\ pc[p] = "returned"
        /\ hostAtStart[p] # ""
        /\ CallThrew(calls[p], "fetch") \/ CallThrew(calls[p], "generate")
        /\ indexHost = hostAtStart[p]

\* C9: a resolution that fails at startup is contained (onModuleInit does not
\* reject) and leaves the handle as it was; a request that finds the handle
\* empty issues the resolution, once; when it succeeds the handle is set and
\* the request goes on to the translation; when it fails the request returns
\* and the handle stays empty, so that the next request resolves again.
C9_LazyRetry ==
    /\ [](initPc # "rejected")
    /\ [][/\ (initPc = "describe" /\ initPc' = "failed") => indexHost' = indexHost
          /\ \A p \in Reqs :
                /\ (pc[p] = "idle" /\ pc'[p] # "idle" /\ indexHost = "")
                      => (pc'[p] = "describe" /\ calls'[p] = <<DescribeCall>>)
                /\ (pc[p] = "describe" /\ pc'[p] # "describe")
                      => \/ /\ CallReturned(calls'[p], "describeIndex")
                            /\ indexHost' = CallOf(calls'[p], "describeIndex").out.v
                            /\ indexHost' # ""
                            /\ pc'[p] = "translate"
                            /\ Last(calls'[p]) = TranslateCall(question[p])
                         \/ /\ CallThrew(calls'[p], "describeIndex")
                            /\ indexHost' = indexHost
                            /\ pc'[p] = "returned"
                            /\ HasError(result'[p])
                /\ CountOf(calls'[p], "describeIndex") <= 1]_vars

\* Startup failed, and a later request resolved the host itself and went
\* through the whole pipeline.
C9_Witness ==
    \E p \in Reqs :
        /\ initPc = "failed"
        /\ pc[p] = "returned"
        /\ hostAtStart[p] = ""
        /\ CallReturned(calls[p], "describeIndex")
        /\ FullSuccess(p)
        /\ indexHost # ""

\* The outcomes of a call log, without the calls
OutcomesOf(log) == [i \in 1..Len(log) |-> log[i].out]

Settled(call, out) == [call EXCEPT !.out = out]

\* ask run alone, from a handle h0, on the question q, the i-th external call
\* it issues having the outcome outs[i]: the calls it issues and its result.
RunFromGenerate(q, e, hs, log, outs) ==
    LET g == outs[Len(log) + 1]
        log1 == Append(log, Settled(GenerateCall(Context(hs), e, q), g))
    IN  IF g.k = "throw"
        THEN [calls |-> log1, result |-> FailureResult(q, g.err)]
        ELSE [calls |-> log1, result |-> SuccessResult(q, e, g.v)]

RunFromJson(q, e, log, outs) ==
    LET j == outs[Len(log) + 1]
        log1 == Append(log, Settled(JsonCall, j))
    IN  IF j.k = "throw"
        THEN [calls |-> log1, result |-> FailureResult(q, j.err)]
        ELSE IF HitsOf(j.v) = <<>>
        THEN [calls |-> log1, result |-> EmptyResult(q, e)]
        ELSE IF MapThrows(HitsOf(j.v))
        THEN [calls |-> log1, result |-> FailureResult(q, ErrNullHit)]
        ELSE RunFromGenerate(q, e, HitsOf(j.v), log1, outs)

RunFromFetch(q, e, host, log, outs) ==
    LET f == outs[Len(log) + 1]
        log1 == Append(log, Settled(FetchCall(host, e), f))
    IN  IF f.k = "throw"
        THEN [calls |-> log1, result |-> FailureResult(q, f.err)]
        ELSE IF ~f.v.ok
        THEN [calls |-> log1,
              result |-> FailureResult(q, [message |-> SearchErrorPrefix \o f.v.statusText])]
        ELSE RunFromJson(q, e, log1, outs)

RunFromTranslate(q, host, log, outs) ==
    LET t == outs[Len(log) + 1]
        log1 == Append(log, Settled(TranslateCall(q), t))
    IN  IF t.k = "throw"
        THEN [calls |-> log1, result |-> FailureResult(q, t.err)]
        ELSE RunFromFetch(q, Trim(t.v), host, log1, outs)

RunAlone(q, h0, outs) ==
    IF h0 # ""
    THEN RunFromTranslate(q, h0, <<>>, outs)
    ELSE LET d == outs[1]
             log1 == <<Settled(DescribeCall, d)>>
         IN  IF d.k = "throw"
             THEN [calls |-> log1, result |-> FailureResult(q, d.err)]
             ELSE RunFromTranslate(q, d.v, log1, outs)

\* C10: however requests and startup interleave, the handle holds the empty
\* value or the host resolution returns, and a returned request has issued
\* the calls and returned the result that ask run alone issues and returns
\* from the handle the request found, on the same outcomes of its calls.
C10_RaceHarmless ==
    /\ indexHost \in {"", DescribedHost}
    /\ \A p \in Reqs :
          pc[p] = "returned" =>
              RunAlone(question[p], hostAtStart[p], OutcomesOf(calls[p]))
                  = [calls |-> calls[p], result |-> result[p]]

\* Two requests both resolved the host (a duplicate resolution) and both
\* went through the whole pipeline.
C10_Witness ==
    \E p, r \in Reqs :
        /\ p # r
        /\ pc[p] = "returned" /\ pc[r] = "returned"
        /\ CallReturned(calls[p], "describeIndex")
        /\ CallReturned(calls[r], "describeIndex")
        /\ FullSuccess(p) /\ FullSuccess(r)


----------------------------------------------------------------------------
(* C11..C13 *)

OpsOf(log) == [i \in 1..Len(log) |-> log[i].op]

IsPrefix(a, b) == Len(a) <= Len(b) /\ a = SubSeq(b, 1, Len(a))

\* The calls of the stages, in order: the Retriever's endpoint resolution
\* (when the handle was empty), the Normalizer's translation, the Retriever's
\* search and the reading of its body, the Generator's answer call.
StageCalls(h0) ==
    (IF h0 = "" THEN <<"describeIndex">> ELSE <<>>)
        \o <<"translate", "fetch", "json", "generate">>

\* The call has completed and its stage has not failed: it returned, a search
\* with a success status, a body whose hits are not empty and assemble.
CompletedWell(call) ==
    /\ call.out.k = "ok"
    /\ call.op = "fetch" => call.out.v.ok
    /\ call.op = "json" =>
          (HitsOf(call.out.v) # <<>> /\ ~MapThrows(HitsOf(call.out.v)))

\* C11: within a request the stages run one after the other in the order
\* Normalizer, Retriever, Assembler, Generator: the calls issued so far are a
\* prefix of that order, only the last one can be pending, and every call
\* before the last has completed without its stage failing (so nothing is
\* invoked after a failure, and the Generator only after the assembly).
C11_Sequential ==
    \A p \in Reqs :
        /\ IsPrefix(OpsOf(calls[p]), StageCalls(hostAtStart[p]))
        /\ \A i \in 1..Len(calls[p]) - 1 : CompletedWell(calls[p][i])
        /\ \A i \in 1..Len(calls[p]) :
              calls[p][i].op = "generate" =>
                  calls[p][i].context = Context(HitsOf(calls[p][i - 1].out.v))

\* A request that resolved the host and went through all the stages.
C11_Witness ==
    \E p \in Reqs :
        /\ pc[p] = "returned"
        /\ OpsOf(calls[p]) = <<"describeIndex", "translate", "fetch", "json", "generate">>
        /\ Last(calls[p]).out.k = "ok"

Operations == {"describeIndex", "translate", "fetch", "json", "generate"}

\* C12: no outbound operation is retried: in a request each of endpoint
\* resolution, translation, search (and the reading of its body) and answer
\* generation is invoked at most once, whatever its outcome.
C12_NoRetry ==
    \A p \in Reqs : \A op \in Operations : CountOf(calls[p], op) <= 1

\* A request returned after its translation call threw, having issued it once.
C12_Witness ==
    \E p \in Reqs :
        /\ pc[p] = "returned"
        /\ CallThrew(calls[p], "translate")
        /\ CountOf(calls[p], "translate") = 1

\* C13: the search is issued with the Normalizer's output (the trimmed answer
\* of the translation call) as its query text, and the answer chain is
\* invoked with that same query, the question as asked and the context
\* assembled from the hits.
C13_QueryIsCanonical ==
    \A p \in Reqs : \A i \in 1..Len(calls[p]) :
        /\ calls[p][i].op = "fetch" =>
              /\ CallReturned(calls[p], "translate")
              /\ calls[p][i].query = TranslateToEnglish(CallOf(calls[p], "translate").out.v)
              /\ calls[p][i].query = english[p]
        /\ calls[p][i].op = "generate" =>
              /\ calls[p][i].english_question = CallOf(calls[p], "fetch").query
              /\ calls[p][i].original_question = question[p]
              /\ calls[p][i].context = Context(HitsOf(CallOf(calls[p], "json").out.v))

\* The question was translated: the search and the answer chain were given
\* the translation, the answer chain the untrimmed question too.
C13_Witness ==
    \E p \in Reqs :
        /\ HasCall(calls[p], "generate")
        /\ question[p] = <<" ", "q">>
        /\ CallOf(calls[p], "fetch").query = <<"e">>
        /\ CallOf(calls[p], "generate").english_question = <<"e">>
        /\ CallOf(calls[p], "generate").original_question = <<" ", "q">>


----------------------------------------------------------------------------
(* C14 *)

\* The field of a hit that holds the fragment's text: `text`, which the search
\* requests, or `combined_context`, which the assembly reads.
TextFields == {"text", "combined_context"}

HasText(hit, f) ==
    /\ "fields" \in DOMAIN hit
    /\ f \in DOMAIN hit.fields
    /\ hit.fields[f] # <<>>

\* What the claim lets a fragment contribute, f being the text field: its
\* text, or else a structured (so not empty) dump of its attributes.
ClaimedEntry(entry, hit, f) ==
    IF HasText(hit, f)
    THEN entry = hit.fields[f]
    ELSE entry # <<>> /\ Head(entry) = "{"

\* C14 as claimed: the context handed to the answer chain is one entry per
\* hit, in the order of the hits, joined by the separator, and each entry is
\* the hit's text, or a structured dump of its attributes when it has no
\* text (whichever of the two fields is taken to be the text).
C14_ContextOfFragments ==
    \E f \in TextFields :
        \A p \in Reqs :
            HasCall(calls[p], "generate") =>
                LET hs == HitsOf(CallOf(calls[p], "json").out.v)
                    entries == [i \in 1..Len(hs) |-> HitEntry(hs[i])]
                IN  /\ CallOf(calls[p], "generate").context = Join(entries, Separator)
                    /\ \A i \in 1..Len(hs) : ClaimedEntry(entries[i], hs[i], f)


----------------------------------------------------------------------------
(* C15: the Normalizer on text that is in the canonical language already *)

TextChars == {" ", "\t", "q"}

\* Every text of up to MaxText characters, whitespace anywhere in it.
Texts == SeqsUpTo(TextChars, MaxText)

\* The service after a startup that resolved the host.
NormInit ==
    /\ indexHost = DescribedHost
    /\ initPc = "resolved"
    /\ pc = [p \in Reqs |-> "idle"]
    /\ question = [p \in Reqs |-> <<>>]
    /\ english = [p \in Reqs |-> <<>>]
    /\ hostAtStart = [p \in Reqs |-> ""]
    /\ calls = [p \in Reqs |-> <<>>]
    /\ result = [p \in Reqs |-> NoResult]

\* Request 1 asks any text and request 2 asks what the Normalizer made of it;
\* for both the translation chain answers its input verbatim.
NormNext ==
    \/ \E q \in Texts : Ask(1, q)
    \/ TranslateReturn(1, question[1])
    \/ pc[1] = "fetch" /\ Ask(2, english[1])
    \/ TranslateReturn(2, question[2])

NormSpec == NormInit /\ [][NormNext]_vars

AllWhitespace(s) == \A k \in 1..Len(s) : s[k] \in Whitespace

\* o is s without its leading and trailing whitespace: s is o between two
\* runs of whitespace, and o neither starts nor ends with whitespace.
IsTrimOf(o, s) ==
    /\ \E i, j \in 0..Len(s) :
          /\ i + j <= Len(s)
          /\ AllWhitespace(SubSeq(s, 1, i))
          /\ AllWhitespace(SubSeq(s, Len(s) - j + 1, Len(s)))
          /\ o = SubSeq(s, i + 1, Len(s) - j)
    /\ o # <<>> => (o[1] \notin Whitespace /\ o[Len(o)] \notin Whitespace)

\* The translation call of request p has answered its input verbatim.
AnsweredVerbatim(p) ==
    /\ CallReturned(calls[p], "translate")
    /\ CallOf(calls[p], "translate").out.v = question[p]

\* C15: when the translation call returns the input verbatim, the
\* Normalizer's output is the input without its leading and trailing
\* whitespace, and the Normalizer applied to that output (asked as a question
\* of its own, and directly) returns it unchanged.
C15_NormalizerIdempotent ==
    /\ \A p \in Reqs :
          AnsweredVerbatim(p) =>
              /\ IsTrimOf(english[p], question[p])
              /\ TranslateToEnglish(english[p]) = english[p]
    /\ (AnsweredVerbatim(1) /\ AnsweredVerbatim(2)) => english[2] = english[1]

\* A text with whitespace on both sides was normalized, and its output
\* normalized again.
C15_Witness ==
    /\ AnsweredVerbatim(1) /\ AnsweredVerbatim(2)
    /\ question[1] = <<" ", "q", "\t">>
    /\ english[1] = <<"q">>
    /\ question[2] = <<"q">>
    /\ english[2] = <<"q">>


----------------------------------------------------------------------------
(* C16, C17 *)

\* C16: however requests and startup interleave, no search is issued while
\* the handle is empty: the host of every search issued is the host a
\* completed resolution stored in the handle, and the handle still holds it.
C16_SearchHasHost ==
    \A p \in Reqs : \A i \in 1..Len(calls[p]) :
        calls[p][i].op = "fetch" =>
            /\ calls[p][i].host # ""
            /\ calls[p][i].host = DescribedHost
            /\ calls[p][i].host = indexHost

\* A request found the handle empty, resolved the host itself and issued its
\* search while startup and another request were still resolving.
C16_Witness ==
    \E p, r \in Reqs :
        /\ p # r
        /\ hostAtStart[p] = ""
        /\ pc[p] = "fetch"
        /\ initPc = "describe"
        /\ pc[r] = "describe"

\* The resolution issued by the request of this log threw.
ResolutionThrew(log) ==
    \E i \in 1..Len(log) : log[i].op = "describeIndex" /\ log[i].out.k = "throw"

\* C17: when a request finds the handle empty and its resolution fails, the
\* request returns the failure result (degraded answer, error set to the
\* failure's description) having invoked neither the Normalizer, nor the
\* search, nor the Generator; and the failing step leaves the handle as it
\* is, so a handle that is empty then is left empty.
C17_ResolutionFailure ==
    /\ [](\A p \in Reqs :
            ResolutionThrew(calls[p]) =>
                /\ hostAtStart[p] = ""
                /\ pc[p] = "returned"
                /\ result[p].answer = SystemErrorAnswer
                /\ HasError(result[p])
                /\ result[p].error = ErrDescribe.message
                /\ OpsOf(calls[p]) = <<"describeIndex">>)
    /\ [][\A p \in Reqs :
            (~ResolutionThrew(calls[p]) /\ ResolutionThrew(calls'[p]))
                => indexHost' = indexHost]_vars

\* Startup could not resolve the host, and neither could the request: the
\* handle is empty still.
C17_Witness ==
    \E p \in Reqs :
        /\ initPc = "failed"
        /\ pc[p] = "returned"
        /\ ResolutionThrew(calls[p])
        /\ indexHost = ""

====
